---- MODULE Spec2Model ----
(***************************************************************************)
(* Model of stonesoup/detector/tensorflow.py:                              *)
(* TensorFlowBoxObjectDetector.__init__ and _get_detections_from_frame.    *)
(*                                                                         *)
(* Numbers.  Box coordinates and scores are floats in [0,1]; they are      *)
(* carried here as integer tenths (0.1 is 1, 1.0 is 10).  A state_vector   *)
(* component is therefore tenths of a pixel (40.0 px is 400).  The class   *)
(* ids the engine reports are floats; they are carried as integer halves   *)
(* (3.0 is 6, 4.5 is 9) so that the cast to int64 is a real truncation.    *)
(***************************************************************************)
EXTENDS Integers, Sequences, FiniteSets, TLC

VARIABLES model_path, labels_path, _detect_fn, category_index,
          pc, frame, response, output_dict, num_detections,
          frame_height, frame_width, todo, detections, outcome

detector == <<model_path, labels_path, _detect_fn, category_index>>
locals   == <<output_dict, num_detections, frame_height, frame_width, todo, detections>>
vars     == <<model_path, labels_path, _detect_fn, category_index,
              pc, frame, response, output_dict, num_detections,
              frame_height, frame_width, todo, detections, outcome>>

\* ------------------------------------------------------------------ bounds
\* Length of the detection axis of the engine's (padded) output arrays.
MaxBoxes == 2
\* Frame timestamps range over 1..MaxTime.
MaxTime == 2

\* ------------------------------------------------------------ input sets
\* Raw boxes [y_min, x_min, y_max, x_max] in tenths: a proper box, an
\* inverted one (max < min on both axes) and a degenerate (empty) one.
Boxes == { <<1, 2, 5, 6>>, <<5, 6, 1, 2>>, <<3, 3, 3, 3>> }
\* Raw class ids in halves: 1.0, 3.0 and 4.5.
RawClasses == { 2, 6, 9 }
\* Scores in tenths: 0.1 and 0.9.
Scores == { 1, 9 }
\* pixels.shape of the frames: (height, width, channels).
Shapes == { <<100, 200, 3>>, <<2, 3, 3>> }
Frames == { [pixels |-> [shape |-> s], timestamp |-> t] : s \in Shapes, t \in 1..MaxTime }
NoFrame == [pixels |-> [shape |-> <<0, 0, 0>>], timestamp |-> 0]

ModelPaths == { "saved_model_tf1", "saved_model_tf2" }
LabelPaths == { "labels_a.pbtxt", "labels_b.pbtxt" }

\* --------------------------------------------------------- construction
\* model.tensorflow_version of the saved model, as a sequence of characters.
tensorflow_version(path) ==
    IF path = "saved_model_tf1" THEN <<"1", ".", "1", "5">> ELSE <<"2", ".", "4">>

\* tf_version.startswith('1')
startswith1(v) == Len(v) >= 1 /\ v[1] = "1"

\* The detection function chosen by __init__.
DetectFnOf(path) ==
    IF startswith1(tensorflow_version(path)) THEN "signatures.serving_default" ELSE "model"

\* lm_util.create_category_index_from_labelmap: class id -> {id, name}.
create_category_index(path) ==
    IF path = "labels_a.pbtxt"
    THEN (1 :> [id |-> 1, name |-> "person"]) @@ (3 :> [id |-> 3, name |-> "car"])
    ELSE (1 :> [id |-> 1, name |-> "person"]) @@ (3 :> [id |-> 3, name |-> "car"])
         @@ (4 :> [id |-> 4, name |-> "dog"])

\* ------------------------------------------------------ engine response
\* A tensor is [rank, data]; the per-detection outputs have a batch axis of
\* size 1 and a detection axis of size MaxBoxes, num_detections has only
\* the batch axis.
Tensor2(row) == [rank |-> 2, data |-> <<row>>]
Tensor1(x) == [rank |-> 1, data |-> <<x>>]

Responses ==
    { [num_detections    |-> Tensor1(n),
       detection_boxes   |-> Tensor2(b),
       detection_classes |-> Tensor2(c),
       detection_scores  |-> Tensor2(s)] :
         n \in 0..MaxBoxes,
         b \in [1..MaxBoxes -> Boxes],
         c \in [1..MaxBoxes -> RawClasses],
         s \in [1..MaxBoxes -> Scores] }

NoOutcome == [kind |-> "none", value |-> {}, error |-> ""]
Returned(s) == [kind |-> "return", value |-> s, error |-> ""]
Raised(e) == [kind |-> "raise", value |-> {}, error |-> e]

EmptyDict == [k \in {} |-> 0]

Init ==
    /\ model_path \in ModelPaths
    /\ labels_path \in LabelPaths
    /\ _detect_fn = DetectFnOf(model_path)
    /\ category_index = create_category_index(labels_path)
    /\ pc = "idle"
    /\ frame = NoFrame
    /\ response = <<>>
    /\ output_dict = EmptyDict
    /\ num_detections = 0
    /\ frame_height = 0
    /\ frame_width = 0
    /\ todo = <<>>
    /\ detections = {}
    /\ outcome = NoOutcome

\* ------------------------------------------------- helpers of the call
\* output_dict.pop(key): the value, and the dict without the key.
PopKeep(d, key) == [value |-> d[key], rest |-> d]
Pop(d, key) == [value |-> d[key], rest |-> [k \in DOMAIN d \ {key} |-> d[k]]]

\* int(tensor) of a one-element tensor.
ToInt(t) == t.data[1]

Min(a, b) == IF a < b THEN a ELSE b

\* value[0, :n] needs a batch axis and a detection axis.
Sliceable(value) == value.rank >= 2

\* value[0, :n].numpy(): batch index 0, the first n entries (clipped).
SliceShort(value, n) == SubSeq(value.data[1], 1, Min(n, Len(value.data[1])) - 1)
SliceAll(value, n) == value.data[1]
Slice(value, n) == SubSeq(value.data[1], 1, Min(n, Len(value.data[1])))

\* arr.astype(np.int64) of non-negative floats carried in halves.
astype_int64(arr) == [j \in 1..Len(arr) |-> arr[j] \div 2]

\* zip(boxes, classes, scores): stops at the shortest.
ZipCrossed(b, c, s) ==
    [j \in 1..Min(Len(b), Min(Len(c), Len(s))) |->
        [box |-> b[j], class_ |-> c[j],
         score |-> s[Min(Len(b), Min(Len(c), Len(s))) + 1 - j]]]
Zip(b, c, s) ==
    [j \in 1..Min(Len(b), Min(Len(c), Len(s))) |->
        [box |-> b[j], class_ |-> c[j], score |-> s[j]]]

\* frame_height, frame_width, _ = frame.pixels.shape
UnpackShapeSwapped(shape) == [frame_height |-> shape[2], frame_width |-> shape[1]]
UnpackShape(shape) == [frame_height |-> shape[1], frame_width |-> shape[2]]

\* StateVector([box[1]*W, box[0]*H, (box[3]-box[1])*W, (box[2]-box[0])*H]);
\* Python indexes from 0, sequences here from 1.
StateVector(box, fw, fh) ==
    << box[2] * fw, box[1] * fh, (box[4] - box[2]) * fw, (box[3] - box[1]) * fh >>

\* The metadata dict of one detection; class_ is a key of ci.
Metadata(box, ci, class_, score) ==
    [raw_box |-> box, class |-> ci[class_], score |-> score]

\* Detection(state_vector=..., timestamp=..., metadata=...)
DetectionStale(state_vector, timestamp, metadata) ==
    [state_vector |-> state_vector, timestamp |-> 0, metadata |-> metadata]
Detection(state_vector, timestamp, metadata) ==
    [state_vector |-> state_vector, timestamp |-> timestamp, metadata |-> metadata]

\* detections.add(detection) with Detections compared by value.
SetAddByIdentity(s, d) == s \cup { <<Cardinality(s), d>> }
SetAdd(s, d) == s \cup {d}

ClearedLocals ==
    /\ output_dict' = EmptyDict
    /\ num_detections' = 0
    /\ frame_height' = 0
    /\ frame_width' = 0
    /\ todo' = <<>>
    /\ detections' = {}

\* ------------------------------------------------------------- actions
\* Entry of _get_detections_from_frame(frame): the input tensor is built.
Call ==
    /\ pc = "idle"
    /\ pc' = "detect"
    /\ \E fr \in Frames : frame' = fr
    /\ response' = <<>>
    /\ outcome' = NoOutcome
    /\ UNCHANGED <<detector, locals>>

\* self._detect_fn(input_tensor) returns a dict of batched tensors.
DetectOk ==
    /\ pc = "detect"
    /\ pc' = "extract"
    /\ \E r \in Responses :
          /\ response' = <<r>>
          /\ output_dict' = r
    /\ UNCHANGED <<detector, frame, num_detections, frame_height, frame_width,
                   todo, detections, outcome>>

\* self._detect_fn(input_tensor) raises; the error leaves the call.
DetectFail ==
    /\ pc = "detect"
    /\ pc' = "idle"
    /\ outcome' = Raised("InferenceFailure")
    /\ ClearedLocals
    /\ UNCHANGED <<detector, frame, response>>

\* pop num_detections, truncate, cast the classes, unpack the frame shape.
Extract ==
    /\ pc = "extract"
    /\ LET p  == Pop(output_dict, "num_detections")
           n  == ToInt(p.value)
       IN IF \A k \in DOMAIN p.rest : Sliceable(p.rest[k])
          THEN LET od      == [k \in DOMAIN p.rest |-> Slice(p.rest[k], n)]
                   classes == astype_int64(od["detection_classes"])
                   boxes   == od["detection_boxes"]
                   scores  == od["detection_scores"]
                   hw      == UnpackShape(frame.pixels.shape)
               IN /\ pc' = "loop"
                  /\ output_dict' = od
                  /\ num_detections' = n
                  /\ detections' = {}
                  /\ frame_height' = hw.frame_height
                  /\ frame_width' = hw.frame_width
                  /\ todo' = Zip(boxes, classes, scores)
                  /\ UNCHANGED outcome
          ELSE /\ pc' = "idle"
               /\ outcome' = Raised("SliceError")
               /\ ClearedLocals
    /\ UNCHANGED <<detector, frame, response>>

\* One iteration of the for loop, with three faulty variants of it.
LoopBodySkipUnknown ==
    /\ pc = "loop"
    /\ todo # <<>>
    /\ LET t == Head(todo)
       IN /\ detections' =
               IF t.class_ \in DOMAIN category_index
               THEN SetAdd(detections,
                      Detection(StateVector(t.box, frame_width, frame_height),
                                frame.timestamp,
                                Metadata(t.box, category_index, t.class_, t.score)))
               ELSE detections
          /\ todo' = Tail(todo)
          /\ UNCHANGED <<pc, outcome, output_dict, num_detections,
                         frame_height, frame_width>>
    /\ UNCHANGED <<detector, frame, response>>

LoopBodySetDefault ==
    /\ pc = "loop"
    /\ todo # <<>>
    /\ LET t  == Head(todo)
           ci == IF t.class_ \in DOMAIN category_index
                 THEN category_index
                 ELSE category_index @@ (t.class_ :> [id |-> t.class_, name |-> "N/A"])
       IN /\ category_index' = ci
          /\ detections' = SetAdd(detections,
                      Detection(StateVector(t.box, frame_width, frame_height),
                                frame.timestamp,
                                Metadata(t.box, ci, t.class_, t.score)))
          /\ todo' = Tail(todo)
          /\ UNCHANGED <<pc, outcome, output_dict, num_detections,
                         frame_height, frame_width>>
    /\ UNCHANGED <<model_path, labels_path, _detect_fn, frame, response>>

LoopBodyThreshold ==
    /\ pc = "loop"
    /\ todo # <<>>
    /\ LET t == Head(todo)
       IN IF t.class_ \notin DOMAIN category_index
          THEN /\ pc' = "idle"
               /\ outcome' = Raised("KeyError")
               /\ ClearedLocals
          ELSE /\ detections' =
                    IF t.score < 5 \/ t.box[4] < t.box[2] \/ t.box[3] < t.box[1]
                    THEN detections
                    ELSE SetAdd(detections,
                           Detection(StateVector(t.box, frame_width, frame_height),
                                     frame.timestamp,
                                     Metadata(t.box, category_index, t.class_, t.score)))
               /\ todo' = Tail(todo)
               /\ UNCHANGED <<pc, outcome, output_dict, num_detections,
                              frame_height, frame_width>>
    /\ UNCHANGED <<detector, frame, response>>

LoopBody ==
    /\ pc = "loop"
    /\ todo # <<>>
    /\ LET t == Head(todo)
       IN IF t.class_ \notin DOMAIN category_index
          THEN \* self.category_index[class_] raises KeyError
               /\ pc' = "idle"
               /\ outcome' = Raised("KeyError")
               /\ ClearedLocals
          ELSE /\ detections' =
                    SetAdd(detections,
                      Detection(StateVector(t.box, frame_width, frame_height),
                                frame.timestamp,
                                Metadata(t.box, category_index, t.class_, t.score)))
               /\ todo' = Tail(todo)
               /\ UNCHANGED <<pc, outcome, output_dict, num_detections,
                              frame_height, frame_width>>
    /\ UNCHANGED <<detector, frame, response>>

\* return detections
Return ==
    /\ pc = "loop"
    /\ todo = <<>>
    /\ pc' = "idle"
    /\ outcome' = Returned(detections)
    /\ ClearedLocals
    /\ UNCHANGED <<detector, frame, response>>

Next ==
    \/ Call
    \/ DetectOk
    \/ DetectFail
    \/ Extract
    \/ LoopBody
    \/ Return

Spec == Init /\ [][Next]_vars

\* ----------------------------------------------- vocabulary of the claims
\* The engine's answer to the current call (defined once DetectOk has acted).
HasResponse == response # <<>>
Resp == response[1]
\* The reported count and the raw entry at index i of batch 0.
N == Resp.num_detections.data[1]
RawBox(i) == Resp.detection_boxes.data[1][i]
RawClassId(i) == Resp.detection_classes.data[1][i] \div 2
RawScore(i) == Resp.detection_scores.data[1][i]
Triple(i) == <<RawBox(i), RawClassId(i), RawScore(i)>>
Known(i) == RawClassId(i) \in DOMAIN category_index
\* The call has ended / has ended by returning a set.
Done == pc = "idle" /\ outcome.kind # "none"
HasReturned == pc = "idle" /\ outcome.kind = "return"
FrameH == frame.pixels.shape[1]
FrameW == frame.pixels.shape[2]

C2_MetadataFromOneIndex ==
    HasReturned =>
       \A d \in outcome.value :
          /\ DOMAIN d.metadata = {"raw_box", "class", "score"}
          /\ \E i \in 1..N :
                /\ Known(i)
                /\ d.metadata.raw_box = RawBox(i)
                /\ d.metadata.class = category_index[RawClassId(i)]
                /\ d.metadata.score = RawScore(i)

\* Two reported entries that differ in box, class and score, both returned.
C2_Witness ==
    /\ HasReturned
    /\ N >= 2
    /\ RawBox(1) # RawBox(2)
    /\ RawClassId(1) # RawClassId(2)
    /\ RawScore(1) # RawScore(2)
    /\ Cardinality(outcome.value) = 2

\* C3: when the engine reports N detections, all with known class ids and no
\* two value-identical triples, the call returns a set of exactly N elements
\* (the empty set for N = 0).
C3_ExactlyNElements ==
    (/\ Done
     /\ HasResponse
     /\ \A i \in 1..N : Known(i)
     /\ \A i, j \in 1..N : i # j => Triple(i) # Triple(j))
    => /\ HasReturned
       /\ Cardinality(outcome.value) = N
       /\ (N = 0 => outcome.value = {})

C3_Witness ==
    /\ HasReturned
    /\ N >= 2
    /\ \A i, j \in 1..N : i # j => Triple(i) # Triple(j)
    /\ Cardinality(outcome.value) = N

C3_WitnessEmpty ==
    /\ HasReturned
    /\ N = 0
    /\ outcome.value = {}

\* C4: when one of the first num_detections class ids is not in
\* category_index, the call ends with a KeyError and delivers no set, not
\* even the detections built before the unknown id; and no Detection ever
\* lacks its class record.
C4_UnknownClassFails ==
    /\ (HasResponse /\ \E i \in 1..N : ~Known(i)) =>
          /\ outcome.kind # "return"
          /\ outcome.value = {}
          /\ Done => outcome = Raised("KeyError")
    /\ \A d \in detections \cup outcome.value :
          /\ "class" \in DOMAIN d.metadata
          /\ \E c \in DOMAIN category_index : d.metadata.class = category_index[c]

\* The unknown id comes second, after a detection had already been built.
C4_Witness ==
    /\ Done
    /\ HasResponse
    /\ N >= 2
    /\ Known(1)
    /\ ~Known(2)
    /\ outcome = Raised("KeyError")

\* C5: no step of any call, successful or failing, changes category_index or
\* _detect_fn.
C5_DetectorStateUnchanged ==
    [][category_index' = category_index /\ _detect_fn' = _detect_fn]_vars

\* A call has failed in the engine and the detector is as constructed.
C5_Witness ==
    /\ outcome = Raised("InferenceFailure")
    /\ category_index = create_category_index(labels_path)
    /\ _detect_fn = DetectFnOf(model_path)

\* C6: the state_vector is the box in relative coordinates [x, y, w, h],
\* whatever the pixel size of the frame.
C6_StateVectorIsRelative ==
    \A d \in detections \cup outcome.value :
       LET b == d.metadata.raw_box
       IN d.state_vector = << b[2], b[1], b[4] - b[2], b[3] - b[1] >>

\* C7: every Detection built or returned by a call carries the timestamp of
\* the frame passed to that call.
C7_TimestampOfFrame ==
    \A d \in detections \cup outcome.value : d.timestamp = frame.timestamp

\* A later frame (timestamp above 1) has produced detections.
C7_Witness ==
    /\ HasReturned
    /\ frame.timestamp > 1
    /\ outcome.value # {}

\* C8: when two reported entries are value-identical, the returned set has
\* fewer elements than num_detections.
C8_DuplicatesCollapse ==
    (/\ HasReturned
     /\ \E i, j \in 1..N : i # j /\ Triple(i) = Triple(j))
    => Cardinality(outcome.value) < N

C8_Witness ==
    /\ HasReturned
    /\ N = 2
    /\ Triple(1) = Triple(2)
    /\ Cardinality(outcome.value) = 1

\* C9: only the first num_detections entries of batch 0 contribute: after
\* truncation every array has length num_detections and num_detections is no
\* key of the dict, slicing never fails, a KeyError is always due to an
\* entry below num_detections, and every returned Detection stems from such
\* an entry.
C9_OnlyFirstNContribute ==
    /\ outcome.error # "SliceError"
    /\ pc = "loop" =>
          /\ "num_detections" \notin DOMAIN output_dict
          /\ \A k \in DOMAIN output_dict : Len(output_dict[k]) = N
          /\ Len(todo) + Cardinality(detections) <= N
    /\ outcome.error = "KeyError" => \E i \in 1..N : ~Known(i)
    /\ HasReturned =>
          /\ Cardinality(outcome.value) <= N
          /\ \A d \in outcome.value : \E i \in 1..N :
                d.metadata = [raw_box |-> RawBox(i),
                              class   |-> category_index[RawClassId(i)],
                              score   |-> RawScore(i)]

\* The padding holds an unknown class id and a box found in no reported entry.
C9_Witness ==
    /\ HasReturned
    /\ N >= 1
    /\ N < MaxBoxes
    /\ ~Known(N + 1)
    /\ \A i \in 1..N : RawBox(i) # RawBox(N + 1)

\* C10: nothing is filtered: every one of the first num_detections entries
\* yields a Detection whenever all their class ids are known, however low
\* the score and however degenerate or inverted the box.
C10_NoFiltering ==
    /\ (Done /\ HasResponse /\ \A i \in 1..N : Known(i)) => HasReturned
    /\ HasReturned =>
          \A i \in 1..N : \E d \in outcome.value :
             /\ d.metadata.raw_box = RawBox(i)
             /\ d.metadata.score = RawScore(i)
             /\ d.metadata.class.id = RawClassId(i)

\* A returned Detection with score 0.1 and negative width and height, and
\* one with an empty box.
C10_Witness ==
    /\ HasReturned
    /\ \E d \in outcome.value :
          /\ d.metadata.score = 1
          /\ d.state_vector[3] < 0
          /\ d.state_vector[4] < 0
    /\ \E d \in outcome.value :
          /\ d.state_vector[3] = 0
          /\ d.state_vector[4] = 0

====
